---- MODULE Spec2Model ----
\* URL shortener (prefeitura-rio/url_shortener): the HTTP handlers, the record
\* store (table urls) and the cache (two key-spaces with a TTL), with one
\* step per store or cache call so that requests interleave as they do on
\* the server.
EXTENDS Integers, Sequences, FiniteSets, TLC

VARIABLES
    store,      \* table urls: a set of rows
    cacheByPath,\* cache keys "url:<short_path>"   -> [data, exp]
    cacheByID,  \* cache keys "url_id:<id>"        -> [data, exp]
    now,        \* the clock (database clock and time.Now())
    nextId,     \* number of ids uuid.New() has issued so far
    procs,      \* per request worker: position in the handler and its locals
    budget,     \* per worker: requests it may still start
    faults,     \* store and cache calls that have failed so far
    prev        \* per worker: what its previous request was and how it ended

vars == <<store, cacheByPath, cacheByID, now, nextId, procs, budget, faults, prev>>

-----------------------------------------------------------------------------
\* Bounds of the model

MaxIds == 2         \* ids uuid.New() may issue in one behaviour
MaxTime == 2        \* the clock runs from 1 to MaxTime
MaxSeqReqs == 2     \* requests of the single worker in the sequential specification
MaxSeed == 10       \* rows in a pre-populated table (resolver specification)
MaxFaults == 1      \* store and cache calls that may fail in one behaviour
MaxListRows == 4    \* rows in a pre-populated table (listing specification)

Procs == {1, 2}

\* Program constants; a clock tick is one cache time-to-live
TTL == 1
minLength == 6
maxAttempts == 10
MaxPathLen == 255
StatusOK == 200
StatusCreated == 201
StatusNoContent == 204
StatusBadRequest == 400
StatusNotFound == 404
StatusConflict == 409
StatusInternalServerError == 500
StatusServiceUnavailable == 503

-----------------------------------------------------------------------------
\* Values. A Go pointer is <<>> (nil) or <<v>>; a short path is a sequence of
\* one-character strings; the zero uuid is 0 and the zero time is 0.

Nil == <<>>
Ptr(v) == <<v>>
Deref(p) == p[1]

ZeroTime == 0
ZeroID == 0

Lower == <<"a","b","c","d","e","f","g","h","i","j","k","l","m",
           "n","o","p","q","r","s","t","u","v","w","x","y","z">>
Upper == <<"A","B","C","D","E","F","G","H","I","J","K","L","M",
           "N","O","P","Q","R","S","T","U","V","W","X","Y","Z">>
Digits == <<"0","1","2","3","4","5","6","7","8","9">>

\* A charset whose last character is not alphanumeric
charsetWithDash == Lower \o Upper \o <<"0","1","2","3","4","5","6","7","8","-">>

charset == Lower \o Upper \o Digits

Range(s) == {s[i] : i \in DOMAIN s}

\* strings.ToLower on one character
ToLowerChar(c) ==
    IF \E i \in DOMAIN Upper : Upper[i] = c
    THEN Lower[CHOOSE i \in DOMAIN Upper : Upper[i] = c]
    ELSE c

ToLower(s) == [i \in DOMAIN s |-> ToLowerChar(s[i])]

Chars(str) ==
    CASE str = "api" -> <<"a","p","i">>
      [] str = "health" -> <<"h","e","a","l","t","h">>
      [] str = "urls" -> <<"u","r","l","s">>
      [] str = "swagger" -> <<"s","w","a","g","g","e","r">>
      [] str = "docs" -> <<"d","o","c","s">>
      [] str = "doc" -> <<"d","o","c">>
      [] str = "api-docs" -> <<"a","p","i","-","d","o","c","s">>
      [] str = "openapi" -> <<"o","p","e","n","a","p","i">>
      [] str = "admin" -> <<"a","d","m","i","n">>
      [] str = "login" -> <<"l","o","g","i","n">>
      [] str = "logout" -> <<"l","o","g","o","u","t">>
      [] str = "register" -> <<"r","e","g","i","s","t","e","r">>
      [] str = "signup" -> <<"s","i","g","n","u","p">>
      [] str = "signin" -> <<"s","i","g","n","i","n">>
      [] str = "dashboard" -> <<"d","a","s","h","b","o","a","r","d">>
      [] str = "profile" -> <<"p","r","o","f","i","l","e">>
      [] str = "settings" -> <<"s","e","t","t","i","n","g","s">>
      [] str = "help" -> <<"h","e","l","p">>
      [] str = "support" -> <<"s","u","p","p","o","r","t">>
      [] str = "contact" -> <<"c","o","n","t","a","c","t">>
      [] str = "about" -> <<"a","b","o","u","t">>
      [] str = "privacy" -> <<"p","r","i","v","a","c","y">>
      [] str = "terms" -> <<"t","e","r","m","s">>
      [] str = "faq" -> <<"f","a","q">>
      [] str = "get" -> <<"g","e","t">>
      [] str = "post" -> <<"p","o","s","t">>
      [] str = "put" -> <<"p","u","t">>
      [] str = "patch" -> <<"p","a","t","c","h">>
      [] str = "delete" -> <<"d","e","l","e","t","e">>
      [] str = "head" -> <<"h","e","a","d">>
      [] str = "options" -> <<"o","p","t","i","o","n","s">>
      [] str = "css" -> <<"c","s","s">>
      [] str = "js" -> <<"j","s">>
      [] str = "png" -> <<"p","n","g">>
      [] str = "jpg" -> <<"j","p","g">>
      [] str = "jpeg" -> <<"j","p","e","g">>
      [] str = "gif" -> <<"g","i","f">>
      [] str = "svg" -> <<"s","v","g">>
      [] str = "ico" -> <<"i","c","o">>
      [] str = "pdf" -> <<"p","d","f">>
      [] str = "txt" -> <<"t","x","t">>
      [] str = "xml" -> <<"x","m","l">>
      [] str = "json" -> <<"j","s","o","n">>

reservedPaths ==
    { Chars(w) : w \in
      { "api", "health", "urls",
        "swagger", "docs", "doc", "api-docs", "openapi",
        "admin", "login", "logout", "register", "signup", "signin",
        "dashboard", "profile", "settings", "help", "support", "contact",
        "about", "privacy", "terms", "faq",
        "get", "post", "put", "patch", "delete", "head", "options",
        "css", "js", "png", "jpg", "jpeg", "gif", "svg", "ico", "pdf",
        "txt", "xml", "json" } }

\* A reserved-word check that compares case-sensitively
isReservedPathExact(shortPath) == shortPath \in reservedPaths

isReservedPath(shortPath) == ToLower(shortPath) \in reservedPaths

AllowedChar(c) == c \in Range(Lower) \cup Range(Upper) \cup Range(Digits) \cup {"-"}

isValidShortPath(shortPath) ==
    /\ ~(Len(shortPath) < 1 \/ Len(shortPath) > MaxPathLen)
    /\ \A i \in DOMAIN shortPath : AllowedChar(shortPath[i])
    /\ ~isReservedPath(shortPath)

\* A generator that ignores the requested length
generateRandomStringFixed(length, rnd) == [i \in 1..minLength |-> charset[rnd[i] + 1]]

\* generateRandomString: result[i] = charset[randomIndex], one draw of
\* rand.Int per position; rnd is the sequence of the draws (0-based indices).
generateRandomString(length, rnd) == [i \in 1..length |-> charset[rnd[i] + 1]]

\* Draws of the random source for one string: all first or all last index of
\* the charset, so that two generated strings can collide or differ, and for
\* a string of minLength the draws 3 4 11 4 19 4, which index d e l e t e.
RandIdx == {0, 61}
ReservedDraw == <<3, 4, 11, 4, 19, 4>>
RandDraws(length) ==
    {[i \in 1..length |-> c] : c \in RandIdx}
       \cup (IF length = Len(ReservedDraw) THEN {ReservedDraw} ELSE {})

-----------------------------------------------------------------------------
\* database.URL, the requests and their JSON forms

URL(id, shortPath, destination, title, description, imageURL, expiresAt, createdAt, updatedAt) ==
    [id |-> id, short_path |-> shortPath, destination |-> destination,
     title |-> title, description |-> description, image_url |-> imageURL,
     expires_at |-> expiresAt, created_at |-> createdAt,
     updated_at |-> updatedAt]

\* var url URL: every field at its zero value
ZeroURL == URL(ZeroID, <<>>, "", Nil, Nil, Nil, Nil, ZeroTime, ZeroTime)

\* A member of a JSON request body: absent, null, or a value.
Absent == <<>>
JNull == <<Nil>>
JVal(v) == <<Ptr(v)>>

\* encoding/json into a pointer field: an absent member leaves the pointer
\* nil, null sets it to nil, a value allocates and stores.
BindPtr(m) == IF m = Absent \/ m = JNull THEN Nil ELSE Ptr(Deref(Deref(m)))

\* encoding/json into a **time.Time field: null stops at the outer pointer and
\* sets it to nil; a value allocates both levels.
BindPtrPtr(m) == IF m = Absent \/ m = JNull THEN Nil ELSE Ptr(Ptr(Deref(Deref(m))))

\* encoding/json into a plain string field: absent and null leave it "".
BindString(m) == IF m = Absent \/ m = JNull THEN "" ELSE Deref(Deref(m))

\* c.ShouldBindJSON(&req) for CreateURLRequest; destination is binding:"required"
CreateURLRequest(body) ==
    [ShortPath |-> BindPtr(body.short_path),
     Destination |-> BindString(body.destination),
     Title |-> BindPtr(body.title),
     Description |-> BindPtr(body.description),
     ImageURL |-> BindPtr(body.image_url),
     ExpiresAt |-> BindPtr(body.expires_at)]

CreateBindOK(body) == BindString(body.destination) # ""

\* c.ShouldBindJSON(&req) for UpdateURLRequest
UpdateURLRequest(body) ==
    [ShortPath |-> BindPtr(body.short_path),
     Destination |-> BindPtr(body.destination),
     Title |-> BindPtr(body.title),
     Description |-> BindPtr(body.description),
     ImageURL |-> BindPtr(body.image_url),
     ExpiresAt |-> BindPtrPtr(body.expires_at)]

\* json.Marshal(url) of a *database.URL: "null" for a nil pointer; the
\* omitempty members are left out when their pointer is nil.
OmitEmpty(p) == IF p = Nil THEN Absent ELSE JVal(Deref(p))

Marshal(url) ==
    IF url = Nil
    THEN [null |-> TRUE, id |-> ZeroID, short_path |-> <<>>, destination |-> "",
          title |-> Absent, description |-> Absent, image_url |-> Absent,
          expires_at |-> Absent, created_at |-> ZeroTime, updated_at |-> ZeroTime]
    ELSE LET u == Deref(url) IN
         [null |-> FALSE, id |-> u.id, short_path |-> u.short_path,
          destination |-> u.destination,
          title |-> OmitEmpty(u.title),
          description |-> OmitEmpty(u.description),
          image_url |-> OmitEmpty(u.image_url),
          expires_at |-> OmitEmpty(u.expires_at),
          created_at |-> u.created_at, updated_at |-> u.updated_at]

\* var url database.URL; json.Unmarshal(data, &url): "null" leaves url at its
\* zero value and reports no error.
Unmarshal(data) ==
    IF data.null
    THEN ZeroURL
    ELSE URL(data.id, data.short_path, data.destination,
             BindPtr(data.title), BindPtr(data.description),
             BindPtr(data.image_url), BindPtr(data.expires_at),
             data.created_at, data.updated_at)

-----------------------------------------------------------------------------
\* The table urls

Paths(rows) == {r.short_path : r \in rows}
IDs(rows) == {r.id : r \in rows}

\* A read that forgets its WHERE clause
SelectByIDAny(rows, id) == rows

\* SELECT ... WHERE id = $1
SelectByID(rows, id) == {r \in rows : r.id = id}

\* SELECT ... WHERE short_path = $1 AND (expires_at IS NULL OR expires_at > now)
SelectByShortPath(rows, shortPath, t) ==
    {r \in rows : /\ r.short_path = shortPath
                  /\ (r.expires_at = Nil \/ Deref(r.expires_at) > t)}

\* SELECT EXISTS(SELECT 1 FROM urls WHERE short_path = $1)
shortPathExists(rows, shortPath) == \E r \in rows : r.short_path = shortPath

\* A table without the UNIQUE constraint on short_path
UniqueViolationNone(rows, old, row) == FALSE

\* A table whose only constraint is the primary key
UniqueViolationByID(rows, old, row) == \E r \in rows \ old : r.id = row.id

\* short_path VARCHAR(255) UNIQUE NOT NULL, id PRIMARY KEY: whether the table
\* accepts row in place of the row old (old = {} for an insert)
UniqueViolation(rows, old, row) ==
    \E r \in rows \ old : r.short_path = row.short_path \/ r.id = row.id

\* The row INSERT INTO urls ... RETURNING produces
InsertRow(id, shortPath, req, t) ==
    URL(id, shortPath, req.Destination, req.Title, req.Description,
        req.ImageURL, req.ExpiresAt, t, t)

\* An UPDATE that stamps created_at as well and sets nothing else
UpdateRowRestamps(r, req, t) == [r EXCEPT !.created_at = t, !.updated_at = t]

\* The row UPDATE urls SET updated_at = now, ... WHERE id = $n produces from r
UpdateRow(r, req, t) ==
    [r EXCEPT
       !.updated_at = t,
       !.short_path = IF req.ShortPath # Nil THEN Deref(req.ShortPath) ELSE @,
       !.destination = IF req.Destination # Nil THEN Deref(req.Destination) ELSE @,
       !.title = IF req.Title # Nil THEN req.Title ELSE @,
       !.description = IF req.Description # Nil THEN req.Description ELSE @,
       !.image_url = IF req.ImageURL # Nil THEN req.ImageURL ELSE @,
       !.expires_at = IF req.ExpiresAt # Nil
                      THEN (IF Deref(req.ExpiresAt) = Nil THEN Nil
                            ELSE Deref(req.ExpiresAt))
                      ELSE @]

-----------------------------------------------------------------------------
\* The cache: a key-space is a function from its present keys to [data, exp]

\* A Get that never finds the key
CacheGetMiss(space, key, t) == Nil

\* A Set that stores nothing
CacheSetNothing(space, key, url, t) == space

\* A Set that keeps the entry a key already has
CacheSetIfAbsent(space, key, url, t) ==
    [k \in DOMAIN space \cup {key} |->
        IF k \in DOMAIN space THEN space[k]
        ELSE [data |-> Marshal(url), exp |-> t + TTL]]

\* Get: redis.Nil (nil, nil) for an absent or expired key, else the decoded URL
CacheGet(space, key, t) ==
    IF key \in DOMAIN space /\ t < space[key].exp
    THEN Ptr(Unmarshal(space[key].data))
    ELSE Nil

\* Set(key, json.Marshal(url), ttl)
CacheSet(space, key, url, t) ==
    [k \in DOMAIN space \cup {key} |->
        IF k = key THEN [data |-> Marshal(url), exp |-> t + TTL] ELSE space[k]]

\* A Del that removes nothing
CacheDelNothing(space, key) == space

\* Del(key)
CacheDel(space, key) == [k \in DOMAIN space \ {key} |-> space[k]]

\* A cache whose keys never run out
CacheExpireNever(space, t) == space

\* Keys whose time-to-live has run out are gone
CacheExpire(space, t) == [k \in {x \in DOMAIN space : t < space[x].exp} |-> space[k]]

-----------------------------------------------------------------------------
\* Requests the clients send

Body(shortPath, destination, title, description, imageURL, expiresAt) ==
    [short_path |-> shortPath, destination |-> destination, title |-> title,
     description |-> description, image_url |-> imageURL,
     expires_at |-> expiresAt]

NoBody == Body(Absent, Absent, Absent, Absent, Absent, Absent)

PA == <<"a","b">>
PB == <<"c","-","d">>
A6 == <<"a","a","a","a","a","a">>
PReserved == <<"H","e","a","l","t","h">>
PBadChar == <<"a","_","b">>
PTooLong == [i \in 1..(MaxPathLen + 1) |-> "a"]

CreateBodies ==
    { Body(Absent, JVal("d1"), Absent, Absent, Absent, Absent),
      Body(JVal(<<>>), JVal("d1"), JVal("t1"), Absent, Absent, JVal(1)),
      Body(JVal(PA), JVal("d1"), Absent, JVal("x"), JNull, JNull),
      Body(JVal(A6), JVal("d2"), Absent, Absent, JVal("i"), JVal(2)),
      Body(JVal(PReserved), JVal("d1"), Absent, Absent, Absent, Absent),
      Body(JVal(PBadChar), JVal("d1"), Absent, Absent, Absent, Absent),
      Body(JVal(PTooLong), JVal("d1"), Absent, Absent, Absent, Absent),
      Body(JVal(PB), Absent, Absent, Absent, Absent, Absent) }

UpdateBodies ==
    { Body(Absent, Absent, JVal("t2"), Absent, Absent, Absent),
      Body(JVal(PB), Absent, Absent, Absent, Absent, Absent),
      Body(JVal(PA), Absent, Absent, Absent, Absent, Absent),
      Body(JVal(<<>>), Absent, Absent, Absent, Absent, Absent),
      Body(Absent, Absent, Absent, Absent, Absent, JNull),
      Body(Absent, JVal("d2"), Absent, JVal("y"), JVal("j"), JVal(1)),
      Body(JVal(PReserved), Absent, Absent, Absent, Absent, Absent),
      Body(JVal(PBadChar), Absent, Absent, Absent, Absent, Absent),
      Body(JVal(PTooLong), Absent, Absent, Absent, Absent, Absent) }

\* Ids a request may name: every id issued so far and one never issued
TargetIDs == IDs(store) \cup 1..(IF nextId < MaxIds THEN nextId + 1 ELSE MaxIds)

\* Paths a redirect may name: those in use or cached, and two custom paths
\* whether in use or not
RedirectPaths == Paths(store) \cup DOMAIN cacheByPath \cup {PA, PB}

-----------------------------------------------------------------------------
\* Request workers

\* A worker that has served no request yet
Idle ==
    [pc |-> "idle", kind |-> "none", id |-> ZeroID, path |-> <<>>, body |-> NoBody,
     url |-> Nil, status |-> 0, attempt |-> 0, log |-> <<>>,
     t0 |-> 0, at |-> 0, alone |-> TRUE,
     page |-> 0, limit |-> 0, list |-> Nil]

\* The locals of a request as it enters its handler; alone records whether
\* no other request was in flight at that moment
Local(pc, kind, id, path, body) ==
    [Idle EXCEPT !.pc = pc, !.kind = kind, !.id = id, !.path = path,
                 !.body = body, !.t0 = now,
                 !.alone = \A q \in Procs : procs[q].pc \in {"idle", "done"}]

\* One store or cache call of a request, as the request's log keeps it
Call(name, id, path, url, res) ==
    [call |-> name, id |-> id, path |-> path, url |-> url, res |-> res]

Logged(l, c) == [l EXCEPT !.log = Append(@, c)]

\* Outcomes of a store call and of a cache call: TRUE is success
DBOutcomes == IF faults < MaxFaults THEN BOOLEAN ELSE {TRUE}
CacheOutcomes == IF faults < MaxFaults THEN BOOLEAN ELSE {TRUE}
Outcome(ok) == faults' = IF ok THEN faults ELSE faults + 1

\* What a worker remembers of the request it has answered
Summary(l) ==
    [kind |-> l.kind, id |-> l.id, url |-> l.url, status |-> l.status,
     t0 |-> l.t0, at |-> l.at,
     clean |-> \A i \in 1..Len(l.log) : l.log[i].res # "error"]

\* Worker p takes the next request
Begin(p) ==
    /\ procs[p].pc \in {"idle", "done"}
    /\ budget[p] > 0
    /\ budget' = [budget EXCEPT ![p] = @ - 1]
    /\ prev' = [prev EXCEPT ![p] = Summary(procs[p])]
    /\ UNCHANGED <<store, cacheByPath, cacheByID, now, nextId, faults>>

\* Worker p moves on with locals l
Goto(p, l) == procs' = [procs EXCEPT ![p] = l]

\* A handler that treats a failed call as fatal whatever the call was
RespondFailedIfAnyCallFailed(p, l, status) ==
    procs' = [procs EXCEPT ![p] =
                 [l EXCEPT !.pc = "done",
                           !.status = IF \E i \in 1..Len(l.log) : l.log[i].res = "error"
                                      THEN StatusInternalServerError ELSE status,
                           !.at = now]]

\* Worker p answers the request with status
Respond(p, l, status) ==
    procs' = [procs EXCEPT ![p] = [l EXCEPT !.pc = "done", !.status = status, !.at = now]]

\* The short-path validation block shared by CreateURL, UpdateURL, PatchURL
ShortPathRejected(shortPath) ==
    /\ shortPath # Nil
    /\ Deref(shortPath) # <<>>
    /\ ~isValidShortPath(Deref(shortPath))

-----------------------------------------------------------------------------
\* Handler.CreateURL and DB.CreateURL

\* Creates that have not yet drawn their id
PendingCreates == Cardinality({q \in Procs : procs[q].pc \in {"resolve", "insert"}})

\* Bind and validate
CreateStart(p) ==
    /\ Begin(p)
    /\ nextId + PendingCreates < MaxIds
    /\ \E body \in CreateBodies :
         LET req == CreateURLRequest(body)
             l == Local("create", "create", ZeroID, <<>>, body) IN
         IF ~CreateBindOK(body) \/ ShortPathRejected(req.ShortPath)
         THEN Respond(p, l, StatusBadRequest)
         ELSE IF req.ShortPath = Nil \/ Deref(req.ShortPath) = <<>>
         THEN Goto(p, [l EXCEPT !.pc = "resolve"])
         ELSE Goto(p, [l EXCEPT !.pc = "insert", !.path = Deref(req.ShortPath)])

\* A loop that never gives up
MoreAttemptsAlways(attempt) == TRUE

\* for attempt := 0; attempt < maxAttempts; attempt++: whether another attempt
\* follows the given one
MoreAttempts(attempt) == attempt + 1 < maxAttempts

\* One attempt of generateUniqueShortPath: a candidate, one existence check
CreateResolve(p) ==
    /\ procs[p].pc = "resolve"
    /\ LET l == procs[p]
           length == minLength + l.attempt IN
       \E rnd \in RandDraws(length), dbOK \in DBOutcomes :
         LET shortPath == generateRandomString(length, rnd)
             exists == shortPathExists(store, shortPath)
             res == IF ~dbOK THEN "error" ELSE IF exists THEN "exists" ELSE "absent"
             l2 == Logged(l, Call("shortPathExists", ZeroID, shortPath, Nil, res)) IN
         /\ Outcome(dbOK)
         /\ IF ~dbOK
            THEN Respond(p, l2, StatusInternalServerError)
            ELSE IF ~exists
            THEN Goto(p, [l2 EXCEPT !.pc = "insert", !.path = shortPath])
            ELSE IF MoreAttempts(l.attempt)
            THEN Goto(p, [l2 EXCEPT !.attempt = @ + 1])
            ELSE Respond(p, l2, StatusInternalServerError)
    /\ UNCHANGED <<store, cacheByPath, cacheByID, now, nextId, budget, prev>>

\* uuid.New() and INSERT INTO urls ... RETURNING; the handler maps the error
CreateInsert(p) ==
    /\ procs[p].pc = "insert"
    /\ LET l == procs[p]
           id == nextId + 1
           row == InsertRow(id, l.path, CreateURLRequest(l.body), now) IN
       \E dbOK \in DBOutcomes :
         /\ Outcome(dbOK)
         /\ IF ~dbOK
            THEN /\ Respond(p, Logged(l, Call("INSERT", id, l.path, Nil, "error")),
                            StatusInternalServerError)
                 /\ store' = store
            ELSE IF UniqueViolation(store, {}, row)
            THEN /\ Respond(p, Logged(l, Call("INSERT", id, l.path, Nil, "unique constraint")),
                            StatusConflict)
                 /\ store' = store
            ELSE /\ Goto(p, [Logged(l, Call("INSERT", id, l.path, Ptr(row), "ok"))
                               EXCEPT !.pc = "create_set", !.url = Ptr(row)])
                 /\ store' = store \cup {row}
    /\ nextId' = nextId + 1
    /\ UNCHANGED <<cacheByPath, cacheByID, now, budget, prev>>

\* h.cache.SetURL(ctx, url.ShortPath, url)
CreateSetURL(p) ==
    /\ procs[p].pc = "create_set"
    /\ LET l == procs[p]
           key == Deref(l.url).short_path IN
       \E ok \in CacheOutcomes :
         /\ Outcome(ok)
         /\ /\ cacheByPath' = IF ok THEN CacheSet(cacheByPath, key, l.url, now)
                              ELSE cacheByPath
            /\ Goto(p, [Logged(l, Call("SetURL", ZeroID, key, l.url,
                                       IF ok THEN "ok" ELSE "error"))
                          EXCEPT !.pc = "create_set_id"])
    /\ UNCHANGED <<store, cacheByID, now, nextId, budget, prev>>

\* h.cache.SetURLByID(ctx, url.ID.String(), url), then 201
CreateSetURLByID(p) ==
    /\ procs[p].pc = "create_set_id"
    /\ LET l == procs[p]
           key == Deref(l.url).id IN
       \E ok \in CacheOutcomes :
         /\ Outcome(ok)
         /\ /\ cacheByID' = IF ok THEN CacheSet(cacheByID, key, l.url, now)
                            ELSE cacheByID
            /\ Respond(p, Logged(l, Call("SetURLByID", key, <<>>, l.url,
                                         IF ok THEN "ok" ELSE "error")),
                       StatusCreated)
    /\ UNCHANGED <<store, cacheByPath, now, nextId, budget, prev>>

-----------------------------------------------------------------------------
\* Handler.GetURL

GetStart(p) ==
    /\ Begin(p)
    /\ \E id \in TargetIDs : Goto(p, Local("get_cache", "get", id, <<>>, NoBody))

\* h.cache.GetURLByID: a hit answers 200, an error or a miss goes to the store
GetCache(p) ==
    /\ procs[p].pc = "get_cache"
    /\ LET l == procs[p] IN
       \E ok \in CacheOutcomes :
         LET url == IF ok THEN CacheGet(cacheByID, l.id, now) ELSE Nil
             l2 == Logged(l, Call("GetURLByID", l.id, <<>>, url,
                                  IF ~ok THEN "error" ELSE IF url = Nil THEN "miss" ELSE "hit")) IN
         /\ Outcome(ok)
         /\ IF url # Nil
            THEN Respond(p, [l2 EXCEPT !.url = url], StatusOK)
            ELSE Goto(p, [l2 EXCEPT !.pc = "get_db"])
    /\ UNCHANGED <<store, cacheByPath, cacheByID, now, nextId, budget, prev>>

\* h.db.GetURLByID
GetDB(p) ==
    /\ procs[p].pc = "get_db"
    /\ LET l == procs[p]
           rows == SelectByID(store, l.id) IN
       \E dbOK \in DBOutcomes :
         /\ Outcome(dbOK)
         /\ IF ~dbOK
            THEN Respond(p, Logged(l, Call("SELECT id", l.id, <<>>, Nil, "error")),
                         StatusInternalServerError)
            ELSE IF rows = {}
            THEN Respond(p, Logged(l, Call("SELECT id", l.id, <<>>, Nil, "no rows")),
                         StatusNotFound)
            ELSE LET url == Ptr(CHOOSE r \in rows : TRUE) IN
                 Goto(p, [Logged(l, Call("SELECT id", l.id, <<>>, url, "ok"))
                            EXCEPT !.pc = "get_set_id", !.url = url])
    /\ UNCHANGED <<store, cacheByPath, cacheByID, now, nextId, budget, prev>>

\* h.cache.SetURLByID(ctx, id.String(), url)
GetSetURLByID(p) ==
    /\ procs[p].pc = "get_set_id"
    /\ LET l == procs[p] IN
       \E ok \in CacheOutcomes :
         /\ Outcome(ok)
         /\ /\ cacheByID' = IF ok THEN CacheSet(cacheByID, l.id, l.url, now)
                            ELSE cacheByID
            /\ Goto(p, [Logged(l, Call("SetURLByID", l.id, <<>>, l.url,
                                       IF ok THEN "ok" ELSE "error"))
                          EXCEPT !.pc = "get_set"])
    /\ UNCHANGED <<store, cacheByPath, now, nextId, budget, prev>>

\* h.cache.SetURL(ctx, url.ShortPath, url), then 200
GetSetURL(p) ==
    /\ procs[p].pc = "get_set"
    /\ LET l == procs[p]
           key == Deref(l.url).short_path IN
       \E ok \in CacheOutcomes :
         /\ Outcome(ok)
         /\ /\ cacheByPath' = IF ok THEN CacheSet(cacheByPath, key, l.url, now)
                              ELSE cacheByPath
            /\ Respond(p, Logged(l, Call("SetURL", ZeroID, key, l.url,
                                         IF ok THEN "ok" ELSE "error")),
                       StatusOK)
    /\ UNCHANGED <<store, cacheByID, now, nextId, budget, prev>>

-----------------------------------------------------------------------------
\* Handler.Redirect

RedirectStart(p) ==
    /\ Begin(p)
    /\ \E shortPath \in RedirectPaths :
         LET l == Local("redirect_cache", "redirect", ZeroID, shortPath, NoBody) IN
         IF shortPath = <<>>
         THEN Respond(p, l, StatusNotFound)
         ELSE Goto(p, l)

\* h.cache.GetURL(ctx, shortPath)
RedirectCache(p) ==
    /\ procs[p].pc = "redirect_cache"
    /\ LET l == procs[p] IN
       \E ok \in CacheOutcomes :
         LET url == IF ok THEN CacheGet(cacheByPath, l.path, now) ELSE Nil
             l2 == Logged(l, Call("GetURL", ZeroID, l.path, url,
                                  IF ~ok THEN "error" ELSE IF url = Nil THEN "miss" ELSE "hit")) IN
         /\ Outcome(ok)
         /\ IF url # Nil
            THEN Goto(p, [l2 EXCEPT !.pc = "redirect_check", !.url = url])
            ELSE Goto(p, [l2 EXCEPT !.pc = "redirect_db"])
    /\ UNCHANGED <<store, cacheByPath, cacheByID, now, nextId, budget, prev>>

\* h.db.GetURLByShortPath
RedirectDB(p) ==
    /\ procs[p].pc = "redirect_db"
    /\ LET l == procs[p]
           rows == SelectByShortPath(store, l.path, now) IN
       \E dbOK \in DBOutcomes :
         /\ Outcome(dbOK)
         /\ IF ~dbOK
            THEN Respond(p, Logged(l, Call("SELECT short_path", ZeroID, l.path, Nil, "error")),
                         StatusInternalServerError)
            ELSE IF rows = {}
            THEN Respond(p, Logged(l, Call("SELECT short_path", ZeroID, l.path, Nil, "no rows")),
                         StatusNotFound)
            ELSE LET url == Ptr(CHOOSE r \in rows : TRUE) IN
                 Goto(p, [Logged(l, Call("SELECT short_path", ZeroID, l.path, url, "ok"))
                            EXCEPT !.pc = "redirect_set", !.url = url])
    /\ UNCHANGED <<store, cacheByPath, cacheByID, now, nextId, budget, prev>>

\* h.cache.SetURL(ctx, shortPath, url)
RedirectSetURL(p) ==
    /\ procs[p].pc = "redirect_set"
    /\ LET l == procs[p] IN
       \E ok \in CacheOutcomes :
         /\ Outcome(ok)
         /\ /\ cacheByPath' = IF ok THEN CacheSet(cacheByPath, l.path, l.url, now)
                              ELSE cacheByPath
            /\ Goto(p, [Logged(l, Call("SetURL", ZeroID, l.path, l.url,
                                       IF ok THEN "ok" ELSE "error"))
                          EXCEPT !.pc = "redirect_check"])
    /\ UNCHANGED <<store, cacheByID, now, nextId, budget, prev>>

\* A handler without the expiry check
ExpiredNever(url, t) == FALSE

\* url.ExpiresAt != nil && url.ExpiresAt.Before(time.Now())
Expired(url, t) == url.expires_at # Nil /\ Deref(url.expires_at) < t

\* The expiry check, then the redirect page (the template is taken to render)
RedirectCheck(p) ==
    /\ procs[p].pc = "redirect_check"
    /\ LET l == procs[p] IN
       IF Expired(Deref(l.url), now)
       THEN Respond(p, l, StatusNotFound)
       ELSE Respond(p, l, StatusOK)
    /\ UNCHANGED <<store, cacheByPath, cacheByID, now, nextId, budget, faults, prev>>

-----------------------------------------------------------------------------
\* Handler.UpdateURL (PUT), Handler.PatchURL (PATCH) and DB.UpdateURL

\* Bind and validate; kind is "put" or "patch"
UpdateStart(p) ==
    /\ Begin(p)
    /\ \E kind \in {"put", "patch"}, id \in TargetIDs, body \in UpdateBodies :
         LET l == Local("update_db", kind, id, <<>>, body) IN
         IF ShortPathRejected(UpdateURLRequest(body).ShortPath)
         THEN Respond(p, l, StatusBadRequest)
         ELSE Goto(p, l)

\* UpdateURL's answer to an error of h.db.UpdateURL: always 500
PutErrorStatus(err) == StatusInternalServerError

\* PatchURL's answer to an error of h.db.UpdateURL
PatchErrorStatus(err) ==
    IF err = "not found" THEN StatusNotFound
    ELSE IF err = "unique constraint" THEN StatusConflict
    ELSE StatusInternalServerError

\* h.db.UpdateURL: UPDATE urls SET ... WHERE id = $n RETURNING ...
UpdateDB(p) ==
    /\ procs[p].pc = "update_db"
    /\ LET l == procs[p]
           old == SelectByID(store, l.id)
           req == UpdateURLRequest(l.body)
           ErrStatus(err) == IF l.kind = "put" THEN PutErrorStatus(err)
                             ELSE PatchErrorStatus(err) IN
       \E dbOK \in DBOutcomes :
         /\ Outcome(dbOK)
         /\ IF ~dbOK
            THEN /\ Respond(p, Logged(l, Call("UPDATE", l.id, <<>>, Nil, "error")),
                            ErrStatus("error"))
                 /\ store' = store
            ELSE IF old = {}
            THEN \* sql.ErrNoRows: (nil, nil). UpdateURL answers 404; PatchURL
                 \* does not look at url and goes on to the cache
                 /\ store' = store
                 /\ IF l.kind = "put"
                    THEN Respond(p, Logged(l, Call("UPDATE", l.id, <<>>, Nil, "no rows")),
                                 StatusNotFound)
                    ELSE Goto(p, [Logged(l, Call("UPDATE", l.id, <<>>, Nil, "no rows"))
                                    EXCEPT !.pc = "update_set_id", !.url = Nil])
            ELSE LET r == CHOOSE x \in old : TRUE
                     row == UpdateRow(r, req, now) IN
                 IF UniqueViolation(store, old, row)
                 THEN /\ Respond(p, Logged(l, Call("UPDATE", l.id, <<>>, Nil, "unique constraint")),
                                 ErrStatus("unique constraint"))
                      /\ store' = store
                 ELSE /\ Goto(p, [Logged(l, Call("UPDATE", l.id, <<>>, Ptr(row), "ok"))
                                    EXCEPT !.pc = "update_set_id", !.url = Ptr(row)])
                      /\ store' = (store \ old) \cup {row}
    /\ UNCHANGED <<cacheByPath, cacheByID, now, nextId, budget, prev>>

\* h.cache.SetURLByID(ctx, id.String(), url)
UpdateSetURLByID(p) ==
    /\ procs[p].pc = "update_set_id"
    /\ LET l == procs[p] IN
       \E ok \in CacheOutcomes :
         /\ Outcome(ok)
         /\ /\ cacheByID' = IF ok THEN CacheSet(cacheByID, l.id, l.url, now)
                            ELSE cacheByID
            /\ Goto(p, [Logged(l, Call("SetURLByID", l.id, <<>>, l.url,
                                       IF ok THEN "ok" ELSE "error"))
                          EXCEPT !.pc = "update_set"])
    /\ UNCHANGED <<store, cacheByPath, now, nextId, budget, prev>>

\* h.cache.SetURL(ctx, url.ShortPath, url), then 200. With url nil (PatchURL
\* after no rows) url.ShortPath panics: no cache call, and the recovered
\* panic is answered 500.
UpdateSetURL(p) ==
    /\ procs[p].pc = "update_set"
    /\ LET l == procs[p] IN
       IF l.url = Nil
       THEN /\ Respond(p, l, StatusInternalServerError)
            /\ cacheByPath' = cacheByPath
            /\ faults' = faults
       ELSE LET key == Deref(l.url).short_path IN
            \E ok \in CacheOutcomes :
              /\ Outcome(ok)
              /\ cacheByPath' = IF ok THEN CacheSet(cacheByPath, key, l.url, now)
                                ELSE cacheByPath
              /\ Respond(p, Logged(l, Call("SetURL", ZeroID, key, l.url,
                                           IF ok THEN "ok" ELSE "error")),
                         StatusOK)
    /\ UNCHANGED <<store, cacheByID, now, nextId, budget, prev>>

-----------------------------------------------------------------------------
\* Handler.DeleteURL and DB.DeleteURL

DeleteStart(p) ==
    /\ Begin(p)
    /\ \E id \in TargetIDs : Goto(p, Local("delete_read", "delete", id, <<>>, NoBody))

\* h.db.GetURLByID, to learn the short path
DeleteRead(p) ==
    /\ procs[p].pc = "delete_read"
    /\ LET l == procs[p]
           rows == SelectByID(store, l.id) IN
       \E dbOK \in DBOutcomes :
         /\ Outcome(dbOK)
         /\ IF ~dbOK
            THEN Respond(p, Logged(l, Call("SELECT id", l.id, <<>>, Nil, "error")),
                         StatusInternalServerError)
            ELSE IF rows = {}
            THEN Respond(p, Logged(l, Call("SELECT id", l.id, <<>>, Nil, "no rows")),
                         StatusNotFound)
            ELSE LET url == Ptr(CHOOSE r \in rows : TRUE) IN
                 Goto(p, [Logged(l, Call("SELECT id", l.id, <<>>, url, "ok"))
                            EXCEPT !.pc = "delete_db", !.url = url])
    /\ UNCHANGED <<store, cacheByPath, cacheByID, now, nextId, budget, prev>>

\* A delete that goes on to the cache whatever the store answered
DeleteDBGoesOn(p) ==
    /\ procs[p].pc = "delete_db"
    /\ LET l == procs[p]
           rows == SelectByID(store, l.id) IN
       \E dbOK \in DBOutcomes :
         /\ Outcome(dbOK)
         /\ Goto(p, [Logged(l, Call("DELETE", l.id, <<>>, Nil,
                                    IF ~dbOK THEN "error"
                                    ELSE IF rows = {} THEN "no rows" ELSE "ok"))
                       EXCEPT !.pc = "delete_cache_id"])
         /\ store' = IF dbOK THEN store \ rows ELSE store
    /\ UNCHANGED <<cacheByPath, cacheByID, now, nextId, budget, prev>>

\* h.db.DeleteURL: DELETE FROM urls WHERE id = $1; no row affected is an
\* error ("URL not found"), and every error is answered 500
DeleteDB(p) ==
    /\ procs[p].pc = "delete_db"
    /\ LET l == procs[p]
           rows == SelectByID(store, l.id) IN
       \E dbOK \in DBOutcomes :
         /\ Outcome(dbOK)
         /\ IF ~dbOK
            THEN /\ Respond(p, Logged(l, Call("DELETE", l.id, <<>>, Nil, "error")),
                            StatusInternalServerError)
                 /\ store' = store
            ELSE IF rows = {}
            THEN /\ Respond(p, Logged(l, Call("DELETE", l.id, <<>>, Nil, "no rows")),
                            StatusInternalServerError)
                 /\ store' = store
            ELSE /\ Goto(p, [Logged(l, Call("DELETE", l.id, <<>>, Nil, "ok"))
                               EXCEPT !.pc = "delete_cache_id"])
                 /\ store' = store \ rows
    /\ UNCHANGED <<cacheByPath, cacheByID, now, nextId, budget, prev>>

\* h.cache.DeleteURLByID(ctx, id.String())
DeleteCacheByID(p) ==
    /\ procs[p].pc = "delete_cache_id"
    /\ LET l == procs[p] IN
       \E ok \in CacheOutcomes :
         /\ Outcome(ok)
         /\ /\ cacheByID' = IF ok THEN CacheDel(cacheByID, l.id) ELSE cacheByID
            /\ Goto(p, [Logged(l, Call("DeleteURLByID", l.id, <<>>, Nil,
                                       IF ok THEN "ok" ELSE "error"))
                          EXCEPT !.pc = "delete_cache"])
    /\ UNCHANGED <<store, cacheByPath, now, nextId, budget, prev>>

\* h.cache.DeleteURL(ctx, url.ShortPath), then 204
DeleteCache(p) ==
    /\ procs[p].pc = "delete_cache"
    /\ LET l == procs[p]
           key == Deref(l.url).short_path IN
       \E ok \in CacheOutcomes :
         /\ Outcome(ok)
         /\ /\ cacheByPath' = IF ok THEN CacheDel(cacheByPath, key) ELSE cacheByPath
            /\ Respond(p, Logged(l, Call("DeleteURL", ZeroID, key, Nil,
                                         IF ok THEN "ok" ELSE "error")),
                       StatusNoContent)
    /\ UNCHANGED <<store, cacheByID, now, nextId, budget, prev>>

-----------------------------------------------------------------------------
\* Handler.ListURLs and DB.ListURLs

\* A Go int (64 bits) as hi * 2^58 + lo, hi counted modulo 64, lo small
Int64(hi, lo) == [hi |-> hi, lo |-> lo]

\* strconv.Atoi of the page and limit parameters: page -1 with limit 0,
\* page 1 with limits 101 and 2, page 2 with limits 1 and 2, and page
\* 2^58 + 1 with limit 64
ListParams ==
    { <<Int64(0, -1), 0>>, <<Int64(0, 1), 101>>, <<Int64(0, 1), 2>>,
      <<Int64(0, 2), 1>>, <<Int64(0, 2), 2>>, <<Int64(1, 1), 64>> }

\* x < 1 on a Go int: the sign is bit 63
LessThanOne(x) == x.hi >= 32 \/ (x.hi = 0 /\ x.lo < 1)

\* if page < 1 { page = 1 }
NormalPage(page) == IF LessThanOne(page) THEN Int64(0, 1) ELSE page

\* if limit < 1 || limit > 100 { limit = 10 }
NormalLimit(limit) == IF limit < 1 \/ limit > 100 THEN 10 ELSE limit

\* offset := (page - 1) * limit, in the 64 bits of a Go int
Offset(page, limit) == Int64((page.hi * limit) % 64, (page.lo - 1) * limit)

\* ORDER BY created_at DESC: r comes before x; rows of equal created_at come
\* in an order the database chooses, here by id upwards or downwards
Precedes(r, x, up) ==
    \/ r.created_at > x.created_at
    \/ r.created_at = x.created_at /\ (IF up THEN r.id < x.id ELSE r.id > x.id)

RECURSIVE OrderByCreatedAtDesc(_, _)
OrderByCreatedAtDesc(rows, up) ==
    IF rows = {} THEN <<>>
    ELSE LET first == CHOOSE r \in rows : \A x \in rows \ {r} : Precedes(r, x, up) IN
         <<first>> \o OrderByCreatedAtDesc(rows \ {first}, up)

\* LIMIT $1 OFFSET $2 on the ordered rows; an offset of 2^58 or more is past
\* every table
LimitOffset(ordered, limit, offset) ==
    IF offset.hi # 0 THEN <<>>
    ELSE SubSeq(ordered, offset.lo + 1,
                IF offset.lo + limit < Len(ordered) THEN offset.lo + limit
                ELSE Len(ordered))

\* page and limit are read and normalised
ListStart(p) ==
    /\ Begin(p)
    /\ \E param \in ListParams :
         Goto(p, [Local("list_count", "list", ZeroID, <<>>, NoBody)
                    EXCEPT !.page = param[1], !.limit = param[2]])

\* SELECT COUNT(*) FROM urls
ListCount(p) ==
    /\ procs[p].pc = "list_count"
    /\ LET l == procs[p] IN
       \E dbOK \in DBOutcomes :
         /\ Outcome(dbOK)
         /\ IF ~dbOK
            THEN Respond(p, Logged(l, Call("COUNT", ZeroID, <<>>, Nil, "error")),
                         StatusInternalServerError)
            ELSE Goto(p, [Logged(l, Call("COUNT", ZeroID, <<>>, Nil, "ok"))
                            EXCEPT !.pc = "list_query",
                                   !.list = Ptr([URLs |-> <<>>,
                                                 Total |-> Cardinality(store),
                                                 Page |-> NormalPage(l.page),
                                                 Limit |-> NormalLimit(l.limit)])])
    /\ UNCHANGED <<store, cacheByPath, cacheByID, now, nextId, budget, prev>>

\* SELECT ... FROM urls ORDER BY created_at DESC LIMIT $1 OFFSET $2, then 200;
\* a negative offset is an error of the query
ListQuery(p) ==
    /\ procs[p].pc = "list_query"
    /\ LET l == procs[p]
           page == Deref(l.list).Page
           limit == Deref(l.list).Limit
           offset == Offset(page, limit) IN
       \E dbOK \in DBOutcomes, up \in BOOLEAN :
         /\ Outcome(dbOK)
         /\ IF ~dbOK \/ offset.hi >= 32 \/ offset.lo < 0
            THEN Respond(p, [Logged(l, Call("SELECT list", ZeroID, <<>>, Nil, "error"))
                               EXCEPT !.list = Nil],
                         StatusInternalServerError)
            ELSE Respond(p, [Logged(l, Call("SELECT list", ZeroID, <<>>, Nil, "ok"))
                               EXCEPT !.list =
                                  Ptr([Deref(l.list) EXCEPT !.URLs =
                                         LimitOffset(OrderByCreatedAtDesc(store, up),
                                                     limit, offset)])],
                         StatusOK)
    /\ UNCHANGED <<store, cacheByPath, cacheByID, now, nextId, budget, prev>>

-----------------------------------------------------------------------------
\* Handler.HealthCheck

HealthStart(p) ==
    /\ Begin(p)
    /\ Goto(p, Local("health_db", "health", ZeroID, <<>>, NoBody))

\* A health check that goes on to the cache when the store ping has failed
HealthDBGoesOn(p) ==
    /\ procs[p].pc = "health_db"
    /\ \E ok \in DBOutcomes :
         /\ Outcome(ok)
         /\ Goto(p, [Logged(procs[p], Call("PingContext", ZeroID, <<>>, Nil,
                                           IF ok THEN "ok" ELSE "error"))
                       EXCEPT !.pc = "health_cache"])
    /\ UNCHANGED <<store, cacheByPath, cacheByID, now, nextId, budget, prev>>

\* h.db.PingContext(ctx); an error is answered 503
HealthDB(p) ==
    /\ procs[p].pc = "health_db"
    /\ LET l == procs[p] IN
       \E ok \in DBOutcomes :
         /\ Outcome(ok)
         /\ IF ~ok
            THEN Respond(p, Logged(l, Call("PingContext", ZeroID, <<>>, Nil, "error")),
                         StatusServiceUnavailable)
            ELSE Goto(p, [Logged(l, Call("PingContext", ZeroID, <<>>, Nil, "ok"))
                            EXCEPT !.pc = "health_cache"])
    /\ UNCHANGED <<store, cacheByPath, cacheByID, now, nextId, budget, prev>>

\* h.cache.Ping(ctx); an error is answered 503, success 200
HealthCache(p) ==
    /\ procs[p].pc = "health_cache"
    /\ LET l == procs[p] IN
       \E ok \in CacheOutcomes :
         /\ Outcome(ok)
         /\ Respond(p, Logged(l, Call("Ping", ZeroID, <<>>, Nil,
                                      IF ok THEN "ok" ELSE "error")),
                    IF ok THEN StatusOK ELSE StatusServiceUnavailable)
    /\ UNCHANGED <<store, cacheByPath, cacheByID, now, nextId, budget, prev>>

-----------------------------------------------------------------------------
\* Time passes; cache keys past their time-to-live are gone
Tick ==
    /\ now < MaxTime
    /\ now' = now + 1
    /\ cacheByPath' = CacheExpire(cacheByPath, now + 1)
    /\ cacheByID' = CacheExpire(cacheByID, now + 1)
    /\ UNCHANGED <<store, nextId, procs, budget, faults, prev>>

-----------------------------------------------------------------------------
\* Specifications

\* A table of n rows whose short paths are a^6, a^7, ... (valid custom paths,
\* and the strings the generator yields when every draw is index 0)
SeedRow(k) ==
    URL(100 + k, [i \in 1..(minLength + k - 1) |-> "a"], "d1", Nil, Nil, Nil, Nil, 1, 1)

Seed(n) == {SeedRow(k) : k \in 1..n}

\* The record that POST {"short_path": "ab", "destination": "d1",
\* "description": "x"} creates at time 1, and the same record after
\* PATCH {"short_path": "c-d"}
RowX == URL(1, PA, "d1", Nil, Ptr("x"), Nil, Nil, 1, 1)
RowXRenamed == [RowX EXCEPT !.short_path = PB]

Entry(row) == [data |-> Marshal(Ptr(row)), exp |-> 1 + TTL]

\* States the server can be in when the requests under study arrive:
\* nothing stored; RowX created and cached; RowX created, cached and renamed
Fresh == [rows |-> {}, byPath |-> <<>>, byID |-> <<>>, issued |-> 0]
Created ==
    [rows |-> {RowX}, byPath |-> (PA :> Entry(RowX)), byID |-> (1 :> Entry(RowX)),
     issued |-> 1]
Renamed ==
    [rows |-> {RowXRenamed},
     byPath |-> (PA :> Entry(RowX)) @@ (PB :> Entry(RowXRenamed)),
     byID |-> (1 :> Entry(RowXRenamed)), issued |-> 1]
Seeded(n) == [rows |-> Seed(n), byPath |-> <<>>, byID |-> <<>>, issued |-> 0]

InitWith(s, b) ==
    /\ store = s.rows
    /\ cacheByPath = s.byPath
    /\ cacheByID = s.byID
    /\ now = 1
    /\ nextId = s.issued
    /\ procs = [p \in Procs |-> Idle]
    /\ budget = b
    /\ faults = 0
    /\ prev = [p \in Procs |-> Summary(Idle)]

\* Two workers, each serving one request, concurrently, against an empty table
\* or a table holding one cached record
Init == \E s \in {Fresh, Created} : InitWith(s, [p \in Procs |-> 1])

\* One worker serving MaxSeqReqs requests one after the other, against any of
\* the three states above
InitSeq ==
    \E s \in {Fresh, Created, Renamed} :
       InitWith(s, [p \in Procs |-> IF p = 1 THEN MaxSeqReqs ELSE 0])

\* One request against a table that holds the generator's first n candidates
InitResolver ==
    \E n \in 0..MaxSeed :
       InitWith(Seeded(n), [p \in Procs |-> IF p = 1 THEN 1 ELSE 0])

\* A table for listing: rows 1 and 2 created at time 1, rows 3 and 4 at time
\* 2, and so on
ListRow(k) ==
    URL(k, [i \in 1..k |-> "b"], "d1", Nil, Nil, Nil, Nil, (k + 1) \div 2, (k + 1) \div 2)

\* One request at time t against the first n rows of that table, n such that
\* every row was created by time t
InitList ==
    \E t \in 1..MaxTime, n \in 0..MaxListRows :
       /\ \A k \in 1..n : ListRow(k).created_at <= t
       /\ store = {ListRow(k) : k \in 1..n}
       /\ cacheByPath = <<>>
       /\ cacheByID = <<>>
       /\ now = t
       /\ nextId = n
       /\ procs = [p \in Procs |-> Idle]
       /\ budget = [p \in Procs |-> IF p = 1 THEN 1 ELSE 0]
       /\ faults = 0
       /\ prev = [p \in Procs |-> Summary(Idle)]

\* Two workers, each serving one request, concurrently, against an empty table
\* or a table holding one cached record, and no store or cache call fails
InitRace ==
    \E s \in {Fresh, Created} :
       /\ store = s.rows
       /\ cacheByPath = s.byPath
       /\ cacheByID = s.byID
       /\ now = 1
       /\ nextId = s.issued
       /\ procs = [p \in Procs |-> Idle]
       /\ budget = [p \in Procs |-> 1]
       /\ faults = MaxFaults
       /\ prev = [p \in Procs |-> Summary(Idle)]

Next ==
    \/ \E p \in Procs :
         \/ CreateStart(p) \/ CreateResolve(p) \/ CreateInsert(p)
         \/ CreateSetURL(p) \/ CreateSetURLByID(p)
         \/ GetStart(p) \/ GetCache(p) \/ GetDB(p)
         \/ GetSetURLByID(p) \/ GetSetURL(p)
         \/ RedirectStart(p) \/ RedirectCache(p) \/ RedirectDB(p)
         \/ RedirectSetURL(p) \/ RedirectCheck(p)
         \/ UpdateStart(p) \/ UpdateDB(p)
         \/ UpdateSetURLByID(p) \/ UpdateSetURL(p)
         \/ DeleteStart(p) \/ DeleteRead(p) \/ DeleteDB(p)
         \/ DeleteCacheByID(p) \/ DeleteCache(p)
         \/ ListStart(p) \/ ListCount(p) \/ ListQuery(p)
         \/ HealthStart(p) \/ HealthDB(p) \/ HealthCache(p)
    \/ Tick

Spec == Init /\ [][Next]_vars
SpecSeq == InitSeq /\ [][Next]_vars
SpecResolver == InitResolver /\ [][Next]_vars
SpecList == InitList /\ [][Next]_vars
SpecRace == InitRace /\ [][Next]_vars

-----------------------------------------------------------------------------
\* Properties

Done(p) == procs[p].pc = "done"

\* The call of the given name in a request's log, if the request made it
CallsOf(l, name) == {i \in 1..Len(l.log) : l.log[i].call = name}

\* C1: in every reachable state of the store, whatever creates, PUT/PATCH
\* updates and deletes ran and however their steps interleaved, no two records
\* have the same short_path.
C1_UniqueShortPath ==
    \A r1, r2 \in store : r1.short_path = r2.short_path => r1 = r2

\* Two records are stored and a request that would have duplicated a short
\* path was refused with a conflict
C1_Witness ==
    /\ Cardinality(store) = 2
    /\ \E p \in Procs :
         /\ Done(p)
         /\ procs[p].status = StatusConflict
         /\ \E i \in 1..Len(procs[p].log) : procs[p].log[i].res = "unique constraint"

\* Both workers have answered a create carrying the same valid custom short
\* path, that path was in no row before either INSERT, and neither INSERT
\* failed for another reason than the constraint
SameCustomPathCreates ==
    /\ \A p \in Procs :
         /\ Done(p)
         /\ procs[p].kind = "create"
         /\ CallsOf(procs[p], "shortPathExists") = {}
         /\ CallsOf(procs[p], "INSERT") # {}
         /\ \A i \in CallsOf(procs[p], "INSERT") : procs[p].log[i].res # "error"
    /\ procs[1].path = procs[2].path
    /\ LET inserted == UNION {{procs[p].log[i].id : i \in CallsOf(procs[p], "INSERT")} :
                                p \in Procs} IN
       \A r \in store : r.short_path = procs[1].path => r.id \in inserted

\* C2: two concurrent creates carrying the same valid custom short_path that
\* is not yet in the store, under any interleaving of their steps: exactly one
\* is answered 201 and the other 409, and exactly one record with that path
\* exists afterwards.
C2_OneCreatedOneConflict ==
    SameCustomPathCreates =>
       /\ {procs[p].status : p \in Procs} = {StatusCreated, StatusConflict}
       /\ Cardinality({r \in store : r.short_path = procs[1].path}) = 1

\* The race has happened and worker 2 won it
C2_Witness ==
    /\ SameCustomPathCreates
    /\ procs[1].path = PA
    /\ procs[1].status = StatusConflict
    /\ procs[2].status = StatusCreated

\* Worker p has answered a delete with 204 and no call has failed so far
Deleted(p) ==
    /\ Done(p)
    /\ procs[p].kind = "delete"
    /\ procs[p].status = StatusNoContent
    /\ faults = 0

\* Worker p has answered a request that followed a delete answered 204
AfterDelete(p) ==
    /\ Done(p)
    /\ prev[p].kind = "delete"
    /\ prev[p].status = StatusNoContent
    /\ faults = 0

\* The record a cache entry holds
Cached(entry) == Unmarshal(entry.data)

\* C3 as stated, its part about the state after the delete: the store has no
\* record X, the by-id key of X is absent and no by-path key holds record X,
\* whatever short paths X had.
C3_NoKeyHoldsDeleted ==
    \A p \in Procs :
       Deleted(p) =>
          /\ SelectByID(store, procs[p].id) = {}
          /\ procs[p].id \notin DOMAIN cacheByID
          /\ \A k \in DOMAIN cacheByPath : Cached(cacheByPath[k]).id # procs[p].id

\* C3: in a sequential execution in which every call succeeds, after DeleteURL
\* for id X is answered 204 the store has no record X, the by-id key of X is
\* absent and the by-path key of the short_path X had when it was deleted is
\* absent; a following GetURL(X) and a following Redirect to that short_path
\* are answered 404.
C3_DeleteClearsCurrentKeys ==
    \A p \in Procs :
       /\ Deleted(p) =>
             /\ SelectByID(store, procs[p].id) = {}
             /\ procs[p].id \notin DOMAIN cacheByID
             /\ Deref(procs[p].url).short_path \notin DOMAIN cacheByPath
       /\ (AfterDelete(p) /\ procs[p].kind = "get" /\ procs[p].id = prev[p].id)
             => procs[p].status = StatusNotFound
       /\ (/\ AfterDelete(p)
           /\ procs[p].kind = "redirect"
           /\ procs[p].path = Deref(prev[p].url).short_path)
             => procs[p].status = StatusNotFound

\* The renamed record has been deleted and the redirect to the path it had
\* then has been answered, while the key of its earlier path is still cached
C3_Witness ==
    /\ AfterDelete(1)
    /\ procs[1].kind = "redirect"
    /\ procs[1].path = PB
    /\ Deref(prev[1].url).short_path = PB
    /\ procs[1].status = StatusNotFound
    /\ PA \in DOMAIN cacheByPath

\* C4: Redirect never renders the redirect page for a record whose expires_at
\* is earlier than the time of the request, whether the record came from the
\* by-path cache or from the store: it answers 404.
C4_RedirectNeverServesExpired ==
    \A p \in Procs :
       (Done(p) /\ procs[p].kind = "redirect") =>
          /\ procs[p].status = StatusOK =>
                /\ procs[p].url # Nil
                /\ ~(/\ Deref(procs[p].url).expires_at # Nil
                     /\ Deref(Deref(procs[p].url).expires_at) < procs[p].at)
          /\ (/\ procs[p].url # Nil
              /\ Deref(procs[p].url).expires_at # Nil
              /\ Deref(Deref(procs[p].url).expires_at) < procs[p].at)
                => procs[p].status = StatusNotFound

\* A redirect found an expired record in the by-path cache and answered 404
C4_Witness ==
    \E p \in Procs :
       /\ Done(p)
       /\ procs[p].kind = "redirect"
       /\ procs[p].log # <<>>
       /\ procs[p].log[1].res = "hit"
       /\ Deref(procs[p].url).expires_at = Ptr(1)
       /\ procs[p].at = 2
       /\ procs[p].status = StatusNotFound

\* Worker p's UPDATE has just changed the row of its request's id
UpdateApplied(p) ==
    /\ procs[p].pc = "update_db"
    /\ procs'[p].pc = "update_set_id"
    /\ procs'[p].url # Nil

\* What a member of the request body makes of a field that holds a value
\* (short_path, destination) and of a field that holds a pointer
SetValue(m, before, after) ==
    IF m = Absent THEN after = before ELSE after = Deref(Deref(m))

SetPointer(m, before, after) ==
    IF m = Absent THEN after = before
    ELSE IF m = JNull THEN after = Nil
    ELSE after = Deref(m)

\* C5 as stated: an update of an existing record changes exactly the fields
\* present in the request, and updated_at; an absent member keeps the field's
\* value, expires_at null clears it, expires_at with a time sets it.
C5_PartialUpdate ==
    [][\A p \in Procs :
          UpdateApplied(p) =>
             LET before == CHOOSE r \in store : r.id = procs[p].id
                 after == Deref(procs'[p].url)
                 body == procs[p].body IN
             /\ after \in store'
             /\ after.id = before.id
             /\ after.created_at = before.created_at
             /\ after.updated_at = now
             /\ SetValue(body.short_path, before.short_path, after.short_path)
             /\ SetValue(body.destination, before.destination, after.destination)
             /\ SetPointer(body.title, before.title, after.title)
             /\ SetPointer(body.description, before.description, after.description)
             /\ SetPointer(body.image_url, before.image_url, after.image_url)
             /\ SetPointer(body.expires_at, before.expires_at, after.expires_at)]_vars

\* The existence checks a create has made, as positions of its log
Checks(l) == CallsOf(l, "shortPathExists")

\* C6: the k-th attempt of generateUniqueShortPath (k = 0..9) generates one
\* candidate of length 6 + k and makes one existence check; the resolver
\* returns the candidate of the first attempt whose check reports absent and
\* makes no attempt after it.
C6_ResolverAttempts ==
    \A p \in Procs :
       LET l == procs[p]
           n == Cardinality(Checks(l)) IN
       /\ Checks(l) = 1..n
       /\ l.pc = "resolve" => l.attempt = n
       /\ \A i \in 1..n :
            /\ Len(l.log[i].path) = minLength + (i - 1)
            /\ i < n => l.log[i].res = "exists"
            /\ l.log[i].res = "absent" =>
                  /\ i = n
                  /\ l.path = l.log[i].path
                  /\ l.pc # "resolve"

\* The resolver returned the candidate of its fourth attempt
C6_Witness ==
    /\ procs[1].pc = "insert"
    /\ Cardinality(Checks(procs[1])) = 4
    /\ procs[1].log[4].res = "absent"
    /\ Len(procs[1].path) = minLength + 3

\* The resolver of worker p's create has ended with an error
ResolverFailed(p) ==
    /\ Done(p)
    /\ procs[p].kind = "create"
    /\ Checks(procs[p]) # {}
    /\ procs[p].log[Len(procs[p].log)].call = "shortPathExists"
    /\ procs[p].log[Len(procs[p].log)].res # "absent"

\* C7: when 10 consecutive candidates all exist, or an existence check fails,
\* the resolver ends with an error after at most 10 checks; the create then
\* inserts no record, writes nothing to the cache, makes no further attempt
\* and is answered 500.
C7_ResolverGivesUp ==
    \A p \in Procs :
       LET l == procs[p]
           n == Cardinality(Checks(l)) IN
       /\ n <= maxAttempts
       /\ (/\ n = maxAttempts
           /\ \A i \in 1..n : l.log[i].res = "exists") => ResolverFailed(p)
       /\ (n > 0 /\ l.log[n].res = "error") => ResolverFailed(p)
       /\ ResolverFailed(p) =>
             /\ l.status = StatusInternalServerError
             /\ Len(l.log) = n
             /\ \E k \in 0..MaxSeed : store = Seed(k)
             /\ cacheByPath = <<>>
             /\ cacheByID = <<>>
             /\ budget[p] = 0

\* All 10 candidates existed and the create was answered 500
C7_Witness ==
    /\ ResolverFailed(1)
    /\ Cardinality(Checks(procs[1])) = maxAttempts
    /\ \A i \in 1..maxAttempts : procs[1].log[i].res = "exists"
    /\ procs[1].status = StatusInternalServerError

\* Worker p's create carried no custom short path and was answered 201
AutoCreated(p) ==
    /\ Done(p)
    /\ procs[p].kind = "create"
    /\ procs[p].status = StatusCreated
    /\ LET req == CreateURLRequest(procs[p].body) IN
       req.ShortPath = Nil \/ Deref(req.ShortPath) = <<>>

\* C8: a create without a custom short_path (absent or empty) that succeeds
\* returns a record whose short_path has between 6 and 15 characters, all of
\* a-z, A-Z, 0-9, and differs from the short_path of every other record in
\* the store.
C8_GeneratedShortPath ==
    \A p \in Procs :
       AutoCreated(p) =>
          LET url == Deref(procs[p].url) IN
          /\ Len(url.short_path) \in minLength..(minLength + maxAttempts - 1)
          /\ Range(url.short_path) \subseteq Range(Lower) \cup Range(Upper) \cup Range(Digits)
          /\ url \in store
          /\ \A r \in store : r.id # url.id => r.short_path # url.short_path

\* A create with an empty short_path got a path of 15 characters, 9 other
\* records being stored
C8_Witness ==
    /\ AutoCreated(1)
    /\ procs[1].body.short_path = JVal(<<>>)
    /\ Len(Deref(procs[1].url).short_path) = 15
    /\ Cardinality(store) = 10

\* Worker p has answered the request that followed a create answered 201
\* whose cache writes succeeded, less than the time-to-live after that create
\* began, and no call has failed
AfterCreate(p) ==
    /\ Done(p)
    /\ prev[p].kind = "create"
    /\ prev[p].status = StatusCreated
    /\ prev[p].clean
    /\ procs[p].at < prev[p].t0 + TTL
    /\ faults = 0

\* That request was GetURL by the new id, or Redirect by the new short path
GetOfCreated(p) ==
    /\ AfterCreate(p)
    /\ procs[p].kind = "get"
    /\ procs[p].id = Deref(prev[p].url).id

RedirectOfCreated(p) ==
    /\ AfterCreate(p)
    /\ procs[p].kind = "redirect"
    /\ procs[p].path = Deref(prev[p].url).short_path

\* The request was answered from the cache alone, with the created record
FromCacheAlone(p) ==
    /\ procs[p].url = prev[p].url
    /\ Len(procs[p].log) = 1
    /\ procs[p].log[1].call \in {"GetURLByID", "GetURL"}
    /\ procs[p].log[1].res = "hit"

\* C9 as stated: after a successful create whose two cache writes succeed,
\* and before any expiry of the cache keys or other write, GetURL by the new
\* id and Redirect by the new short_path both return the created record and
\* neither reads the store.
C9_BothServedFromCache ==
    \A p \in Procs :
       (GetOfCreated(p) \/ RedirectOfCreated(p)) =>
          /\ procs[p].status = StatusOK
          /\ FromCacheAlone(p)

\* C9: under the same conditions GetURL by the new id returns the created
\* record, and Redirect by the new short_path returns it unless its
\* expires_at is earlier than the time of the redirect, which is then
\* answered 404; neither reads the store.
C9_ServedFromCacheUnlessExpired ==
    \A p \in Procs :
       /\ GetOfCreated(p) =>
             /\ procs[p].status = StatusOK
             /\ FromCacheAlone(p)
       /\ RedirectOfCreated(p) =>
             /\ FromCacheAlone(p)
             /\ procs[p].status =
                   IF Expired(Deref(prev[p].url), procs[p].at)
                   THEN StatusNotFound ELSE StatusOK

\* A record created with an expires_at already past was cached, and the
\* redirect to it was answered 404 from the cache
C9_Witness ==
    /\ RedirectOfCreated(1)
    /\ Deref(prev[1].url).expires_at = Ptr(1)
    /\ procs[1].at = 2
    /\ procs[1].status = StatusNotFound
    /\ FromCacheAlone(1)

\* Worker p has answered a GetURL whose by-id cache lookup returned absence or
\* an error
GetPastCache(p) ==
    /\ Done(p)
    /\ procs[p].kind = "get"
    /\ procs[p].log[1].res \in {"miss", "error"}

\* C10: GetURL by id whose by-id cache lookup returns absence or an error:
\* when the store holds the record the answer is 200 with the store's record,
\* and the request then writes that record under the by-id key and under the
\* by-path key of its current short_path; when the store has no such record
\* the answer is 404 and nothing is written to the cache.
C10_GetFallsBackToStore ==
    \A p \in Procs :
       GetPastCache(p) =>
          LET l == procs[p]
              rows == SelectByID(store, l.id) IN
          /\ (rows # {} /\ l.log[2].res # "error") =>
                /\ l.status = StatusOK
                /\ l.url # Nil
                /\ Deref(l.url) \in rows
                /\ Len(l.log) = 4
                /\ l.log[3].call = "SetURLByID"
                /\ l.log[3].id = l.id
                /\ l.log[3].url = l.url
                /\ l.log[4].call = "SetURL"
                /\ l.log[4].path = Deref(l.url).short_path
                /\ l.log[4].url = l.url
                /\ (now = l.t0 /\ l.log[3].res = "ok") =>
                      /\ l.id \in DOMAIN cacheByID
                      /\ Cached(cacheByID[l.id]) = Deref(l.url)
                /\ (now = l.t0 /\ l.log[4].res = "ok") =>
                      /\ Deref(l.url).short_path \in DOMAIN cacheByPath
                      /\ Cached(cacheByPath[Deref(l.url).short_path]) = Deref(l.url)
          /\ (rows = {} /\ l.log[2].res # "error") =>
                /\ l.status = StatusNotFound
                /\ Len(l.log) = 2

\* The by-id lookup failed, the store had the record, and the request
\* answered 200 and wrote both keys
C10_Witness ==
    /\ GetPastCache(1)
    /\ procs[1].log[1].res = "error"
    /\ procs[1].status = StatusOK
    /\ Len(procs[1].log) = 4
    /\ procs[1].log[3].res = "ok"
    /\ procs[1].log[4].res = "ok"
    /\ now = procs[1].t0
    /\ Deref(procs[1].url).short_path \in DOMAIN cacheByPath

\* Worker p has answered a redirect that missed the by-path cache and read a
\* record from the store, no call has failed and the clock has not moved
\* since the request began
RedirectReadStore(p) ==
    /\ Done(p)
    /\ procs[p].kind = "redirect"
    /\ Len(procs[p].log) = 3
    /\ procs[p].log[1].res = "miss"
    /\ procs[p].log[2].res = "ok"
    /\ procs[p].status = StatusOK
    /\ faults = 0
    /\ now = procs[p].t0

\* C11 as stated: after a Redirect that misses the by-path cache and reads an
\* unexpired record from the store, the by-path key of its short_path and the
\* by-id key of its id both hold that record.
C11_RedirectWarmsBothKeys ==
    \A p \in Procs :
       RedirectReadStore(p) =>
          LET url == Deref(procs[p].url) IN
          /\ url.short_path \in DOMAIN cacheByPath
          /\ Cached(cacheByPath[url.short_path]) = url
          /\ url.id \in DOMAIN cacheByID
          /\ Cached(cacheByID[url.id]) = url

\* Worker p has answered a PUT or PATCH with 200, no call has failed and the
\* clock has not moved since the request began
Updated(p) ==
    /\ Done(p)
    /\ procs[p].kind \in {"put", "patch"}
    /\ procs[p].status = StatusOK
    /\ faults = 0
    /\ now = procs[p].t0

\* C12: after a successful PUT or PATCH of record X whose cache writes
\* succeed (sequential execution), the by-id entry of X and the by-path entry
\* of X's current short_path both equal the record now in the store, whatever
\* these two keys held before.
C12_UpdateRefreshesBothKeys ==
    \A p \in Procs :
       Updated(p) =>
          /\ procs[p].url # Nil
          /\ LET url == Deref(procs[p].url) IN
             /\ url.id = procs[p].id
             /\ SelectByID(store, procs[p].id) = {url}
             /\ url.id \in DOMAIN cacheByID
             /\ Cached(cacheByID[url.id]) = url
             /\ url.short_path \in DOMAIN cacheByPath
             /\ Cached(cacheByPath[url.short_path]) = url

\* The cached record ab was given a title by a PATCH, and both of its keys,
\* which held the record without the title, now hold it with the title
C12_Witness ==
    /\ Updated(1)
    /\ procs[1].kind = "patch"
    /\ procs[1].id = 1
    /\ store = {[RowX EXCEPT !.title = Ptr("t2")]}
    /\ Cached(cacheByID[1]).title = Ptr("t2")
    /\ Cached(cacheByPath[PA]).title = Ptr("t2")

\* Worker p's delete makes its read of the store in this step, the read does
\* not fail, and the store has no record of the request's id
DeleteReadsNothing(p) ==
    /\ procs[p].pc = "delete_read"
    /\ procs'[p] # procs[p]
    /\ faults' = faults
    /\ ~\E r \in store : r.id = procs[p].id

\* C13: a DeleteURL for an id that has no record in the store is answered
\* 404, issues no store delete and changes neither cache key-space: the read
\* is the request's only call.
C13_DeleteOfMissingRecord ==
    [][\A p \in Procs :
          DeleteReadsNothing(p) =>
             /\ procs'[p].pc = "done"
             /\ procs'[p].status = StatusNotFound
             /\ Len(procs'[p].log) = 1
             /\ procs'[p].log[1].call = "SELECT id"
             /\ UNCHANGED <<store, cacheByPath, cacheByID>>]_vars

\* A delete for an id that was never issued has been answered 404 while
\* another record is stored and cached
C13_Witness ==
    /\ Done(1)
    /\ procs[1].kind = "delete"
    /\ procs[1].id = 2
    /\ procs[1].status = StatusNotFound
    /\ store = {RowX}
    /\ 1 \in DOMAIN cacheByID
    /\ PA \in DOMAIN cacheByPath

\* Worker p has answered a PUT or PATCH whose UPDATE found no row of the id
UpdateFoundNoRow(p) ==
    /\ Done(p)
    /\ procs[p].kind \in {"put", "patch"}
    /\ procs[p].log # <<>>
    /\ procs[p].log[1].call = "UPDATE"
    /\ procs[p].log[1].res = "no rows"

\* C14 as stated: a PUT or PATCH with a valid body for an id that has no
\* record in the store is answered 404, leaves the store unchanged and writes
\* nothing to either cache key-space.
C14_UpdateOfMissingRecord ==
    \A p \in Procs :
       UpdateFoundNoRow(p) =>
          /\ procs[p].status = StatusNotFound
          /\ Len(procs[p].log) = 1
          /\ ~\E r \in store : r.id = procs[p].id

\* What the handlers do: PUT as the claim says; PATCH writes the nil record
\* under the by-id key and is then answered 500
C14_PutOnly ==
    \A p \in Procs :
       UpdateFoundNoRow(p) =>
          IF procs[p].kind = "put"
          THEN /\ procs[p].status = StatusNotFound
               /\ Len(procs[p].log) = 1
          ELSE /\ procs[p].status = StatusInternalServerError
               /\ Len(procs[p].log) = 2
               /\ procs[p].log[2].call = "SetURLByID"
               /\ procs[p].log[2].url = Nil

\* Worker p has answered a create, PUT or PATCH whose INSERT or UPDATE the
\* table refused because another record has the short_path
RefusedByConstraint(p) ==
    /\ Done(p)
    /\ procs[p].kind \in {"create", "put", "patch"}
    /\ procs[p].log # <<>>
    /\ procs[p].log[Len(procs[p].log)].call \in {"INSERT", "UPDATE"}
    /\ procs[p].log[Len(procs[p].log)].res = "unique constraint"

\* C15 as stated: a create, PUT or PATCH whose resulting short_path is the
\* short_path of a different existing record is answered 409, not 400 and not
\* 500, and makes no call after the refused one.
C15_ConflictIs409 ==
    \A p \in Procs : RefusedByConstraint(p) => procs[p].status = StatusConflict

\* What the handlers do: create and PATCH answer 409, PUT answers 500
C15_PutConflictIs500 ==
    \A p \in Procs :
       RefusedByConstraint(p) =>
          procs[p].status = IF procs[p].kind = "put" THEN StatusInternalServerError
                            ELSE StatusConflict

\* The position in a request's log of its store write, when that succeeded
StoreWrites(l) ==
    {i \in 1..Len(l.log) : /\ l.log[i].call \in {"INSERT", "UPDATE", "DELETE"}
                           /\ l.log[i].res = "ok"}

\* The two cache calls each kind of request makes after its store write, and
\* the status it answers
CacheCallsOf(kind) ==
    CASE kind = "create" -> <<"SetURL", "SetURLByID">>
      [] kind = "delete" -> <<"DeleteURLByID", "DeleteURL">>
      [] OTHER -> <<"SetURLByID", "SetURL">>

SuccessStatusOf(kind) ==
    CASE kind = "create" -> StatusCreated
      [] kind = "delete" -> StatusNoContent
      [] OTHER -> StatusOK

\* C16: for a create, PUT, PATCH or delete whose store operation succeeded,
\* the answer and the resulting store are the same whether each of its cache
\* Set/Delete calls succeeds or fails, and a failed cache call does not keep
\* the request from making the other one.
C16_CacheFailuresAreNotFatal ==
    \A p \in Procs :
       LET l == procs[p] IN
       (/\ Done(p)
        /\ l.kind \in {"create", "put", "patch", "delete"}
        /\ StoreWrites(l) # {}) =>
          LET i == CHOOSE j \in StoreWrites(l) : TRUE IN
          /\ StoreWrites(l) = {i}
          /\ Len(l.log) = i + 2
          /\ l.log[i + 1].call = CacheCallsOf(l.kind)[1]
          /\ l.log[i + 2].call = CacheCallsOf(l.kind)[2]
          /\ l.status = SuccessStatusOf(l.kind)
          /\ IF l.kind = "delete"
             THEN ~\E r \in store : r.id = l.id
             ELSE Deref(l.url) \in store

\* A create whose first cache write failed made the second one and was
\* answered 201, the record being stored
C16_Witness ==
    /\ Done(1)
    /\ procs[1].kind = "create"
    /\ Len(procs[1].log) = 3
    /\ procs[1].log[2].call = "SetURL"
    /\ procs[1].log[2].res = "error"
    /\ procs[1].log[3].call = "SetURLByID"
    /\ procs[1].log[3].res = "ok"
    /\ procs[1].status = StatusCreated
    /\ Deref(procs[1].url) \in store

\* Record r's expires_at is earlier than time t
Before(r, t) == r.expires_at # Nil /\ Deref(r.expires_at) < t

\* C17: GetURL by id returns the record the store holds whatever its
\* expires_at: an expired record is returned with 200 on a cache hit and on a
\* store read alike, while Redirect to that record's short_path is answered
\* 404. (Sequential execution, no failed call.)
C17_GetIgnoresExpiry ==
    \A p \in Procs :
       (Done(p) /\ faults = 0) =>
          /\ procs[p].kind = "get" =>
                \A r \in store :
                   r.id = procs[p].id =>
                      /\ procs[p].status = StatusOK
                      /\ procs[p].url = Ptr(r)
          /\ procs[p].kind = "redirect" =>
                \A r \in store :
                   (r.short_path = procs[p].path /\ Before(r, procs[p].t0)) =>
                      procs[p].status = StatusNotFound

\* GetURL found a record that expired at time 1 in the by-id cache at time 2
\* and returned it with 200
C17_Witness ==
    /\ Done(1)
    /\ faults = 0
    /\ procs[1].kind = "get"
    /\ procs[1].log[1].res = "hit"
    /\ procs[1].at = 2
    /\ procs[1].url # Nil
    /\ Deref(procs[1].url).expires_at = Ptr(1)
    /\ Deref(procs[1].url) \in store
    /\ procs[1].status = StatusOK

\* The call that joins the log of worker p's request in this step
Written(p) == procs'[p].log[Len(procs'[p].log)]

\* Worker p's request writes a record under a by-path key in this step: a
\* SetURL call that succeeded joins its log
WritesByPath(p) ==
    /\ Len(procs'[p].log) = Len(procs[p].log) + 1
    /\ Written(p).call = "SetURL"
    /\ Written(p).res = "ok"
    /\ Written(p).url # Nil

\* The store maps short_path k to the record of id
StoreMaps(k, id) == \E r \in store : r.id = id /\ r.short_path = k

\* Every request began while no other request was in flight
Sequential == \A w \in Procs : procs[w].alone

\* A step of the PUT or PATCH of worker p leaves alone every by-path entry
\* other than the one under the short_path the record has after the update
UpdateKeepsOtherKeys(p) ==
    (procs[p].kind \in {"put", "patch"} /\ procs'[p] # procs[p]) =>
        \A k \in DOMAIN cacheByPath :
            (procs'[p].url = Nil \/ k # Deref(procs'[p].url).short_path) =>
                (k \in DOMAIN cacheByPath' /\ cacheByPath'[k] = cacheByPath[k])

\* Every by-path entry is live, and runs out at most one TTL from now
ByPathFresh(space, t) ==
    \A k \in DOMAIN space : t < space[k].exp /\ space[k].exp <= t + TTL

\* C18 as stated: an update leaves every by-path entry other than the one of
\* the record's new short_path as it was, every by-path entry is served for at
\* most one TTL after it was last written, and no request at all writes a
\* record under a by-path key that the store does not map to that record.
C18_StaleEntryNeverRewritten ==
    [][/\ \A p \in Procs : UpdateKeepsOtherKeys(p)
       /\ ByPathFresh(cacheByPath', now')
       /\ \A p \in Procs :
             WritesByPath(p) =>
                 StoreMaps(Written(p).path, Deref(Written(p).url).id)]_vars

\* C18, amended: an update leaves every by-path entry other than the one of
\* the record's new short_path as it was, every by-path entry is served for at
\* most one TTL after it was last written, and a request that began after
\* every other request had been answered writes a record only under the
\* by-path key the store maps to that record.
C18_StaleEntryNotRewrittenLater ==
    [][/\ \A p \in Procs : UpdateKeepsOtherKeys(p)
       /\ ByPathFresh(cacheByPath', now')
       /\ \A p \in Procs :
             (WritesByPath(p) /\ Sequential) =>
                 StoreMaps(Written(p).path, Deref(Written(p).url).id)]_vars

\* A PATCH moved the cached record ab to c-d and wrote it under c-d; the entry
\* under ab is the one written before the PATCH, and a Redirect to ab that
\* began after the PATCH was answered from that entry without a write
C18_Witness ==
    /\ Sequential
    /\ Done(1) /\ procs[1].kind = "patch" /\ procs[1].status = StatusOK
    /\ store = {r \in store : r.id = 1 /\ r.short_path = PB}
    /\ store # {}
    /\ PA \in DOMAIN cacheByPath
    /\ cacheByPath[PA] = Entry(RowX)
    /\ PB \in DOMAIN cacheByPath
    /\ Done(2) /\ procs[2].kind = "redirect" /\ procs[2].path = PA
    /\ procs[2].status = StatusOK
    /\ Len(procs[2].log) = 1
    /\ procs[2].log[1].res = "hit"

\* The request with locals l supplies a non-empty short_path that is longer
\* than 255 characters, or has a character outside a-z, A-Z, 0-9 and '-', or
\* is a reserved word up to case
SuppliesInvalidShortPath(l) ==
    /\ l.kind \in {"create", "put", "patch"}
    /\ l.body.short_path \notin {Absent, JNull}
    /\ LET s == Deref(Deref(l.body.short_path)) IN
       /\ s # <<>>
       /\ \/ Len(s) > 255
          \/ \E i \in DOMAIN s :
                s[i] \notin Range(Lower) \cup Range(Upper) \cup Range(Digits) \cup {"-"}
          \/ ToLower(s) \in reservedPaths

\* C19: a create, PUT or PATCH that supplies a non-empty short_path which is
\* too long, has a character outside the alphabet, or is a reserved word up
\* to case is answered 400 in its first step, with no store or cache call
\* made, and store and cache are left as they were.
C19_InvalidShortPathRejected ==
    [][\A p \in Procs :
          (procs'[p] # procs[p] /\ SuppliesInvalidShortPath(procs'[p])) =>
             /\ procs'[p].pc = "done"
             /\ procs'[p].status = StatusBadRequest
             /\ procs'[p].log = <<>>
             /\ store' = store
             /\ cacheByPath' = cacheByPath
             /\ cacheByID' = cacheByID]_vars

\* A create asking for "Health" was answered 400 without a call, and so was
\* the PATCH of the cached record ab asking for "a_b" before it
C19_Witness ==
    /\ Done(1)
    /\ procs[1].kind = "create"
    /\ procs[1].body.short_path = JVal(PReserved)
    /\ procs[1].status = StatusBadRequest
    /\ procs[1].log = <<>>
    /\ prev[1].kind = "patch"
    /\ prev[1].status = StatusBadRequest
    /\ prev[1].clean
    /\ store = {RowX}
    /\ cacheByPath = (PA :> Entry(RowX))

\* C20: every record in the store has a short_path of 1 to 255 characters
\* drawn only from a-z, A-Z, 0-9 and '-', after any sequence of create, PUT
\* and PATCH requests, those that supply the empty string included.
C20_StoredShortPathWellFormed ==
    \A r \in store :
       /\ Len(r.short_path) \in 1..255
       /\ Range(r.short_path) \subseteq
             Range(Lower) \cup Range(Upper) \cup Range(Digits) \cup {"-"}

\* What does hold of the store: every short_path has at most 255 characters
\* of the alphabet, and a short_path of no characters comes only from a PUT
\* or PATCH that supplied the empty string
C20_EmptyOnlyByUpdate ==
    \A r \in store :
       /\ Len(r.short_path) <= 255
       /\ Range(r.short_path) \subseteq
             Range(Lower) \cup Range(Upper) \cup Range(Digits) \cup {"-"}
       /\ r.short_path = <<>> =>
             \E p \in Procs :
                /\ \/ (procs[p].kind \in {"put", "patch"}
                         /\ procs[p].body.short_path = JVal(<<>>)
                         /\ procs[p].id = r.id)
                   \/ (prev[p].kind \in {"put", "patch"}
                         /\ prev[p].status = StatusOK
                         /\ prev[p].id = r.id)

\* C21: no record in the store has a short_path that equals a reserved path
\* up to case, whether the caller supplied the path or the generator made it.
C21_NoReservedShortPath ==
    \A r \in store : ToLower(r.short_path) \notin reservedPaths

\* What does hold: a request that supplied a non-empty short_path never
\* stores a record under a reserved path
C21_SuppliedNeverReserved ==
    \A p \in Procs :
       (procs[p].body.short_path \notin {Absent, JNull, JVal(<<>>)}) =>
          \A i \in 1..Len(procs[p].log) :
             (procs[p].log[i].call \in {"INSERT", "UPDATE"} /\ procs[p].log[i].res = "ok") =>
                ToLower(Deref(procs[p].log[i].url).short_path) \notin reservedPaths

\* The store step of worker p's PUT or PATCH
UpdateStep(p) == procs[p].pc = "update_db" /\ procs'[p] # procs[p]

\* C22: a record's id and created_at never change after creation: every step
\* keeps the created_at of every id that stays in the store, the store step
\* of a PUT or PATCH changes no record other than the one of the request's id
\* and replaces that one by a record of the same id and created_at, and a
\* record that enters the store has an id no record was ever given before.
C22_IdAndCreatedAtFixed ==
    [][/\ \A r \in store : \A r2 \in store' :
             r2.id = r.id => r2.created_at = r.created_at
       /\ \A p \in Procs :
             UpdateStep(p) =>
                /\ \A r \in store : r.id # procs[p].id => r \in store'
                /\ \A r2 \in store' : r2.id # procs[p].id => r2 \in store
                /\ \A r \in store : r.id = procs[p].id =>
                      \E r2 \in store' : r2.id = r.id /\ r2.created_at = r.created_at
                /\ Cardinality(store') = Cardinality(store)
       /\ \A r2 \in store' :
             (~\E r \in store : r.id = r2.id) =>
                /\ r2.id > nextId
                /\ nextId' >= r2.id
       /\ nextId' >= nextId
       /\ \A r \in store : r.id <= nextId \/ r \in Seed(MaxSeed)]_vars

\* A PATCH at time 2 gave the record created at time 1 a new short_path and a
\* new updated_at; its id and created_at are as before, and the record created
\* by the request before it is still in the store
C22_Witness ==
    /\ Done(1)
    /\ procs[1].kind = "patch"
    /\ procs[1].status = StatusOK
    /\ procs[1].id = 1
    /\ Deref(procs[1].url) \in store
    /\ Deref(procs[1].url).short_path = PB
    /\ Deref(procs[1].url).created_at = 1
    /\ Deref(procs[1].url).updated_at = 2
    /\ prev[1].kind = "create"
    /\ prev[1].status = StatusCreated
    /\ Deref(prev[1].url) \in store
    /\ Cardinality(store) = 2

\* Worker p's ListURLs is answered 200 in this step
Listed(p) ==
    /\ procs[p].kind = "list"
    /\ procs[p].pc # "done"
    /\ procs'[p].pc = "done"
    /\ procs'[p].status = StatusOK

\* urls is a run of length n of the rows ordered by created_at descending
\* that has exactly skip rows before it: its rows are distinct rows in that
\* order, some skip other rows none created earlier than a row of the run
\* come before it, and the remaining rows, none created later than a row of
\* the run or a row before it, come after it
IsPage(urls, rows, skip, n) ==
    /\ Len(urls) = n
    /\ \A i \in 1..n : urls[i] \in rows
    /\ \A i, j \in 1..n : i < j =>
          (urls[i] # urls[j] /\ urls[i].created_at >= urls[j].created_at)
    /\ \E before \in SUBSET (rows \ Range(urls)) :
          /\ Cardinality(before) = skip
          /\ \A b \in before : \A u \in Range(urls) : b.created_at >= u.created_at
          /\ \A a \in rows \ (before \cup Range(urls)) :
                \A u \in before \cup Range(urls) : a.created_at <= u.created_at

Least(a, b) == IF a < b THEN a ELSE b

\* What the response to a listing with the given page and limit parameters
\* must be over the rows, page and limit being the numbers they denote
ListedAsSpecified(res, page, limit, rows) ==
    LET n == Cardinality(rows)
        l == IF limit < 1 \/ limit > 100 THEN 10 ELSE limit
        first == page.hi = 0 /\ page.lo < 1
        \* (page - 1) * limit, or the number of rows when it is larger
        skip == IF first THEN 0
                ELSE IF page.hi # 0 THEN n
                ELSE Least((page.lo - 1) * l, n) IN
    /\ res.Page = (IF first THEN Int64(0, 1) ELSE page)
    /\ res.Limit = l
    /\ res.Total = n
    /\ IsPage(res.URLs, rows, skip, Least(l, n - skip))

\* C23: ListURLs(page, limit) answers with the records at positions
\* (page-1)*limit through (page-1)*limit+limit-1 of all records ordered by
\* created_at descending and with total the number of all records, page < 1
\* read as 1 and limit < 1 or limit > 100 read as 10; and no step of a
\* listing changes store or cache.
C23_ListReturnsThePage ==
    [][\A p \in Procs :
          /\ (procs'[p].kind = "list" /\ procs'[p] # procs[p]) =>
                /\ store' = store
                /\ cacheByPath' = cacheByPath
                /\ cacheByID' = cacheByID
          /\ Listed(p) =>
                ListedAsSpecified(Deref(procs'[p].list), procs[p].page,
                                  procs[p].limit, store)]_vars

\* What does hold: the same for every page below 2^58
C23_ListReturnsThePageBelowOverflow ==
    [][\A p \in Procs :
          /\ (procs'[p].kind = "list" /\ procs'[p] # procs[p]) =>
                /\ store' = store
                /\ cacheByPath' = cacheByPath
                /\ cacheByID' = cacheByID
          /\ (Listed(p) /\ procs[p].page.hi = 0) =>
                ListedAsSpecified(Deref(procs'[p].list), procs[p].page,
                                  procs[p].limit, store)]_vars

\* C24: a HealthCheck that has answered pinged the store first; if that ping
\* failed it answered 503 and made no other call; otherwise it pinged the
\* cache second and answered 503 if that ping failed and 200 if it succeeded.
C24_HealthPingsStoreThenCache ==
    \A p \in Procs :
       (Done(p) /\ procs[p].kind = "health") =>
          LET log == procs[p].log IN
          /\ Len(log) >= 1
          /\ log[1].call = "PingContext"
          /\ IF log[1].res = "error"
             THEN Len(log) = 1 /\ procs[p].status = 503
             ELSE /\ Len(log) = 2
                  /\ log[2].call = "Ping"
                  /\ procs[p].status = (IF log[2].res = "error" THEN 503 ELSE 200)

\* A health check whose store ping succeeded and whose cache ping failed was
\* answered 503, after one that was answered 200
C24_Witness ==
    /\ Done(1)
    /\ procs[1].kind = "health"
    /\ procs[1].status = 503
    /\ Len(procs[1].log) = 2
    /\ procs[1].log[1].res = "ok"
    /\ procs[1].log[2].res = "error"
    /\ prev[1].kind = "health"
    /\ prev[1].status = 200

\* The calls that write the store, and the calls that write the cache
StoreWriteCalls == {"INSERT", "UPDATE", "DELETE"}
CacheWriteCalls == {"SetURL", "SetURLByID", "DeleteURL", "DeleteURLByID"}

\* The store call c returned an error to its caller: DB.UpdateURL turns "no
\* rows" into (nil, nil), DB.DeleteURL turns it into an error
ReturnedError(c) ==
    /\ c.call \in StoreWriteCalls
    /\ \/ c.res \in {"error", "unique constraint"}
       \/ c.call = "DELETE" /\ c.res = "no rows"

AutoCreate(p) ==
    /\ procs[p].kind = "create"
    /\ procs[p].body.short_path \in {Absent, JNull, JVal(<<>>)}

\* The request of worker p met the unique constraint
MetConstraint(p) ==
    \E i \in 1..Len(procs[p].log) : procs[p].log[i].res = "unique constraint"

\* C26: a create without a custom short_path never ends in a unique-constraint
\* conflict, however its steps interleave with other creates and updates: it
\* is not answered 409 and its insert is not refused by the constraint.
C26_AutoCreateNeverConflicts ==
    \A p \in Procs :
       AutoCreate(p) => (procs[p].status # StatusConflict /\ ~MetConstraint(p))

\* What does hold: no conflict for a create without a custom short_path that
\* began after every other request had been answered
C26_AutoCreateAloneNeverConflicts ==
    \A p \in Procs :
       (AutoCreate(p) /\ Sequential) =>
          (procs[p].status # StatusConflict /\ ~MetConstraint(p))

\* Both workers have completed an update of the same id, answered 200, no
\* call of either failed and no cache entry written by them has run out
BothUpdated ==
    /\ \A p \in Procs :
          /\ Done(p)
          /\ procs[p].kind \in {"put", "patch"}
          /\ procs[p].status = StatusOK
          /\ procs[p].t0 = now
    /\ procs[1].id = procs[2].id
    /\ \A p \in Procs : \A i \in 1..Len(procs[p].log) : procs[p].log[i].res # "error"

\* The record of id in the store, its by-id entry and the by-path entry of
\* its short_path are the same
CacheAgreesWithStore(id) ==
    \E r \in store :
       /\ r.id = id
       /\ id \in DOMAIN cacheByID
       /\ Cached(cacheByID[id]) = r
       /\ r.short_path \in DOMAIN cacheByPath
       /\ Cached(cacheByPath[r.short_path]) = r

\* C27 as stated: once two updates of the same id have both completed, with
\* every cache call successful, the by-id entry and the by-path entry of the
\* record's current short_path equal the record in the store, however the
\* store updates and cache writes of the two interleaved.
C27_CacheAgreesAfterTwoUpdates ==
    BothUpdated => CacheAgreesWithStore(procs[1].id)

\* C27, amended: once two updates of the same id have both completed, with
\* every cache call successful, the by-id entry holds the record one of the
\* two store updates returned, and every by-path entry written by either
\* holds the record that request's store update returned or the other's; the
\* entries equal the record in the store when the second update began after
\* the first was answered.
C27_CacheHoldsOneOfTheTwoUpdates ==
    BothUpdated =>
       LET id == procs[1].id
           rows == {Deref(procs[p].url) : p \in Procs} IN
       /\ id \in DOMAIN cacheByID
       /\ Cached(cacheByID[id]) \in rows
       /\ \A r \in rows :
             /\ r.short_path \in DOMAIN cacheByPath
             /\ Cached(cacheByPath[r.short_path]) \in rows
       /\ \E r \in rows : r \in store
       /\ Sequential => CacheAgreesWithStore(id)

\* Two concurrent PATCHes of the cached record ab have completed, and the
\* by-id entry holds the record the earlier store update returned, which is
\* no longer the record in the store
C27_Witness ==
    /\ BothUpdated
    /\ ~Sequential
    /\ procs[1].id = 1
    /\ procs[1].kind = "patch"
    /\ procs[2].kind = "patch"
    /\ Cached(cacheByID[1]) = Deref(procs[1].url)
    /\ Deref(procs[2].url) \in store
    /\ Deref(procs[1].url) \notin store

\* Worker p has completed a GetURL of id x or a Redirect to the short_path of
\* the seeded record x, and worker q a DeleteURL of x answered 204; no call
\* of either failed
ReadAndDeleted(p, q, x) ==
    /\ Done(p) /\ Done(q)
    /\ \/ procs[p].kind = "get" /\ procs[p].id = x
       \/ procs[p].kind = "redirect" /\ procs[p].path = RowX.short_path /\ x = RowX.id
    /\ procs[q].kind = "delete"
    /\ procs[q].id = x
    /\ procs[q].status = StatusNoContent
    /\ \A w \in {p, q} : \A i \in 1..Len(procs[w].log) : procs[w].log[i].res # "error"

\* The entries of a key-space that hold the record of id x
Holding(space, x) == {k \in DOMAIN space : Cached(space[k]).id = x}

BothDeleted ==
    /\ \A p \in Procs :
          /\ Done(p)
          /\ procs[p].kind = "delete"
          /\ procs[p].id = RowX.id
          /\ \A i \in 1..Len(procs[p].log) : procs[p].log[i].res # "error"
    /\ \E p \in Procs : procs[p].log[1].res = "ok"

\* C29: of two DeleteURL requests for the same existing id, one answers 204
\* and the other 404, never 500, however their reads and store deletes
\* interleave.
C29_OneDeletedOneNotFound ==
    BothDeleted =>
       \E p, q \in Procs :
          /\ p # q
          /\ procs[p].status = StatusNoContent
          /\ procs[q].status = StatusNotFound

\* What does hold: one answers 204; the other answers 404 when its read came
\* after the store delete, and 500 when its read came before it and its own
\* DELETE found no row
C29_OneDeletedOtherNotFoundOrError ==
    BothDeleted =>
       \E p, q \in Procs :
          /\ p # q
          /\ procs[p].status = StatusNoContent
          /\ \/ /\ procs[q].status = StatusNotFound
                /\ Len(procs[q].log) = 1
                /\ procs[q].log[1].res = "no rows"
             \/ /\ procs[q].status = StatusInternalServerError
                /\ ~Sequential
                /\ Len(procs[q].log) = 2
                /\ procs[q].log[1].res = "ok"
                /\ procs[q].log[2].call = "DELETE"
                /\ procs[q].log[2].res = "no rows"

\* C30: a present by-id entry under key X decodes to a record whose id is X,
\* a present by-path entry under key P decodes to a record whose short_path
\* is P, and a GetURL of X answered 200 carries a record whose id is X.
C30_EntriesMatchTheirKeys ==
    /\ \A x \in DOMAIN cacheByID : Cached(cacheByID[x]).id = x
    /\ \A k \in DOMAIN cacheByPath : Cached(cacheByPath[k]).short_path = k
    /\ \A p \in Procs :
          (Done(p) /\ procs[p].kind = "get" /\ procs[p].status = StatusOK) =>
             Deref(procs[p].url).id = procs[p].id

\* What does hold: by-path entries match their keys, and a by-id entry, and
\* the record of a GetURL answered 200, either has the id asked for or is the
\* zero record decoded from the null a PATCH of a missing id wrote
C30_EntriesMatchTheirKeysOrAreNull ==
    /\ \A x \in DOMAIN cacheByID :
          Cached(cacheByID[x]).id = x \/ cacheByID[x].data = Marshal(Nil)
    /\ \A k \in DOMAIN cacheByPath : Cached(cacheByPath[k]).short_path = k
    /\ \A p \in Procs :
          (Done(p) /\ procs[p].kind = "get" /\ procs[p].status = StatusOK) =>
             \/ Deref(procs[p].url).id = procs[p].id
             \/ /\ Deref(procs[p].url) = ZeroURL
                /\ prev[p].kind = "patch"
                /\ prev[p].id = procs[p].id
                /\ prev[p].status = StatusInternalServerError

====
